---- MODULE Spec2Model ----
(***************************************************************************)
(* Model of the meeting-minutes backend: the filename date extractor       *)
(* (services/date_extractor.py), the retried Gemini calls                  *)
(* (services/gemini_service.py) and the request handlers that use them     *)
(* (routers/transcribe.py, routers/refine.py, models.py).                  *)
(*                                                                         *)
(* Strings are sequences of one-character strings.  A Python value that    *)
(* may be None, a str or a raised exception is a record [kind, val].       *)
(***************************************************************************)
EXTENDS Integers, Sequences, FiniteSets, TLC

VARIABLES
    filename,     \* the argument handed to DateExtractor.extract_date
    result,       \* what extract_date gave back (Pending before the call)
    nparts,       \* number of parts the filename was assembled from
    entry,        \* the MONTHS entry a written filename spells (0: none)
    calls,        \* the retried GeminiService invocations, one record each
    handler       \* the request a router handler is serving

vars == <<filename, result, nparts, entry, calls, handler>>

(***************************************************************************)
(* Python values                                                           *)
(***************************************************************************)
None == [kind |-> "None", val |-> <<>>]

Str(s) == [kind |-> "str", val |-> s]

Raise(e) == [kind |-> "raise", val |-> <<e>>]

Pending == [kind |-> "pending", val |-> <<>>]

IsRaise(v) == v.kind = "raise"

\* no request is being served
NoRequest ==
    [ route |-> "none",           \* transcribe, refine, summarize
      pc |-> "idle",              \* idle, save, call, done
      name |-> None,              \* file.filename of the upload
      size |-> 0,                 \* len(content)
      file_ext |-> <<>>,          \* Path(filename).suffix.lower()
      temp_path |-> None,         \* the handler's temp_path
      disk |-> "absent",          \* the request's file in the temp directory
      saves |-> 0,                \* calls of audio_service.save_temp_file
      detected_date |-> None,     \* date_extractor.extract_date(filename)
      body |-> None,              \* the JSON body of a /refine or /summarize request
      refined |-> None,           \* refined_transcript, as refine_transcript returned it
      changes_made |-> None,      \* detect_changes(...) of the /refine response
      raised |-> None,            \* the exception raised inside the handler's try
      error_text |-> None,        \* str(e) as "except Exception" puts it in the detail
      status |-> 0 ]              \* status code of the response (0: none yet)

(***************************************************************************)
(* Characters                                                              *)
(***************************************************************************)
DigitChars == <<"0", "1", "2", "3", "4", "5", "6", "7", "8", "9">>

LowerChars ==
    <<"a", "b", "c", "d", "e", "f", "g", "h", "i", "j", "k", "l", "m",
      "n", "o", "p", "q", "r", "s", "t", "u", "v", "w", "x", "y", "z">>

UpperChars ==
    <<"A", "B", "C", "D", "E", "F", "G", "H", "I", "J", "K", "L", "M",
      "N", "O", "P", "Q", "R", "S", "T", "U", "V", "W", "X", "Y", "Z">>

Range(f) == {f[i] : i \in DOMAIN f}

IndexOf(seq, c) == CHOOSE i \in DOMAIN seq : seq[i] = c

\* str.lower() on one character
LowerChar(c) == IF c \in Range(UpperChars) THEN LowerChars[IndexOf(UpperChars, c)] ELSE c

\* str.upper() on one character
UpperChar(c) == IF c \in Range(LowerChars) THEN UpperChars[IndexOf(LowerChars, c)] ELSE c

\* str.lower()
lower(s) == [i \in DOMAIN s |-> LowerChar(s[i])]

\* the regex character classes the patterns use (re.IGNORECASE adds nothing
\* to [a-zA-Z] over this alphabet)
ClsDigit == Range(DigitChars)

ClsAlpha == Range(LowerChars) \cup Range(UpperChars)

ClsSpace == {" "}

ClsDashUnd == {"-", "_"}

ClsDot == {"."}

ClsDashUndComma == {"-", "_", ","}

RECURSIVE LeadingSpaces(_)
LeadingSpaces(s) ==
    IF s # <<>> /\ Head(s) \in ClsSpace THEN 1 + LeadingSpaces(Tail(s)) ELSE 0

RECURSIVE TrailingSpaces(_)
TrailingSpaces(s) ==
    IF s # <<>> /\ s[Len(s)] \in ClsSpace
    THEN 1 + TrailingSpaces(SubSeq(s, 1, Len(s) - 1))
    ELSE 0

\* str.strip()
strip(s) ==
    IF LeadingSpaces(s) = Len(s) THEN <<>>
    ELSE SubSeq(s, LeadingSpaces(s) + 1, Len(s) - TrailingSpaces(s))

\* int() of a str: ValueError (-1 here) unless it is a non-empty digit run
RECURSIVE DigitsValue(_)
DigitsValue(s) ==
    IF s = <<>> THEN 0
    ELSE 10 * DigitsValue(SubSeq(s, 1, Len(s) - 1)) + (IndexOf(DigitChars, s[Len(s)]) - 1)

IsDigitRun(s) == s # <<>> /\ \A i \in DOMAIN s : s[i] \in ClsDigit

int(s) == IF IsDigitRun(s) THEN DigitsValue(s) ELSE -1

(***************************************************************************)
(* Regular expressions.  Every pattern of PATTERNS is a concatenation of   *)
(* greedily quantified character classes; grp is the capture group an item *)
(* fills (0: none).  Matching is Python's: leftmost start, each quantifier *)
(* takes as much as it can and gives back one character at a time when the *)
(* rest of the pattern fails.                                              *)
(***************************************************************************)
\* the repetition cap of + and *: none
Unbounded == -1

Item(cls, min, max, grp) == [cls |-> cls, min |-> min, max |-> max, grp |-> grp]

RECURSIVE RunLen(_, _, _, _)
RunLen(s, pos, cls, max) ==
    IF max = 0 \/ pos > Len(s) \/ s[pos] \notin cls THEN 0
    ELSE 1 + RunLen(s, pos + 1, cls, max - 1)

RECURSIVE MatchItems(_, _, _, _)
RECURSIVE TryCount(_, _, _, _, _)
\* {} when items k.. do not match at pos, else {the lengths the items take}
MatchItems(s, pos, items, k) ==
    IF k > Len(items) THEN {<<>>}
    ELSE TryCount(s, pos, items, k, RunLen(s, pos, items[k].cls, items[k].max))

TryCount(s, pos, items, k, n) ==
    IF n < items[k].min THEN {}
    ELSE LET rest == MatchItems(s, pos + n, items, k + 1)
         IN  IF rest # {} THEN {<<n>> \o r : r \in rest}
             ELSE TryCount(s, pos, items, k, n - 1)

\* re.search found nothing: None
NoMatch == [kind |-> "None", val |-> <<>>, start |-> 0, lens |-> <<>>]

RECURSIVE SearchFromRight(_, _, _)
SearchFromRight(items, s, start) ==
    IF start > Len(s) + 1 THEN NoMatch
    ELSE LET later == SearchFromRight(items, s, start + 1)
             m == MatchItems(s, start, items, 1)
         IN  IF later.kind = "match" THEN later
             ELSE IF m # {}
             THEN [kind |-> "match", val |-> <<>>, start |-> start,
                   lens |-> CHOOSE l \in m : TRUE]
             ELSE NoMatch

RECURSIVE SearchFrom(_, _, _)
\* the scan of re.search: the first start position, from the left, at which
\* the pattern matches
SearchFrom(items, s, start) ==
    IF start > Len(s) + 1 THEN NoMatch
    ELSE LET m == MatchItems(s, start, items, 1)
         IN  IF m # {}
             THEN [kind |-> "match", val |-> <<>>, start |-> start,
                   lens |-> CHOOSE l \in m : TRUE]
             ELSE SearchFrom(items, s, start + 1)

\* re.search(pattern, string, re.IGNORECASE); TypeError on a non-str
re_search(items, string) ==
    IF string.kind # "str" THEN Raise("TypeError")
    ELSE SearchFrom(items, string.val, 1)

RECURSIVE SumLens(_, _)
SumLens(lens, n) == IF n = 0 THEN 0 ELSE lens[n] + SumLens(lens, n - 1)

ItemOfGroup(items, g) == CHOOSE k \in DOMAIN items : items[k].grp = g

\* match.groups()[g - 1]
Group(items, s, m, g) ==
    LET k == ItemOfGroup(items, g)
        b == m.start + SumLens(m.lens, k - 1)
    IN  SubSeq(s, b, b + m.lens[k] - 1)

(***************************************************************************)
(* DateExtractor                                                           *)
(***************************************************************************)
\* MONTHS: lowercase month name or abbreviation -> two-digit month
MONTHS ==
    <<  [name |-> <<"j","a","n","u","a","r","y">>, num |-> <<"0","1">>],
        [name |-> <<"j","a","n">>, num |-> <<"0","1">>],
        [name |-> <<"f","e","b","r","u","a","r","y">>, num |-> <<"0","2">>],
        [name |-> <<"f","e","b">>, num |-> <<"0","2">>],
        [name |-> <<"m","a","r","c","h">>, num |-> <<"0","3">>],
        [name |-> <<"m","a","r">>, num |-> <<"0","3">>],
        [name |-> <<"a","p","r","i","l">>, num |-> <<"0","4">>],
        [name |-> <<"a","p","r">>, num |-> <<"0","4">>],
        [name |-> <<"m","a","y">>, num |-> <<"0","5">>],
        [name |-> <<"j","u","n","e">>, num |-> <<"0","6">>],
        [name |-> <<"j","u","n">>, num |-> <<"0","6">>],
        [name |-> <<"j","u","l","y">>, num |-> <<"0","7">>],
        [name |-> <<"j","u","l">>, num |-> <<"0","7">>],
        [name |-> <<"a","u","g","u","s","t">>, num |-> <<"0","8">>],
        [name |-> <<"a","u","g">>, num |-> <<"0","8">>],
        [name |-> <<"s","e","p","t","e","m","b","e","r">>, num |-> <<"0","9">>],
        [name |-> <<"s","e","p">>, num |-> <<"0","9">>],
        [name |-> <<"s","e","p","t">>, num |-> <<"0","9">>],
        [name |-> <<"o","c","t","o","b","e","r">>, num |-> <<"1","0">>],
        [name |-> <<"o","c","t">>, num |-> <<"1","0">>],
        [name |-> <<"n","o","v","e","m","b","e","r">>, num |-> <<"1","1">>],
        [name |-> <<"n","o","v">>, num |-> <<"1","1">>],
        [name |-> <<"d","e","c","e","m","b","e","r">>, num |-> <<"1","2">>],
        [name |-> <<"d","e","c">>, num |-> <<"1","2">>] >>

\* (\d{4})[-_](\d{1,2})[-_](\d{1,2})
RegexIsoSep ==
    << Item(ClsDigit, 4, 4, 1), Item(ClsDashUnd, 1, 1, 0),
       Item(ClsDigit, 1, 2, 2), Item(ClsDashUnd, 1, 1, 0),
       Item(ClsDigit, 1, 2, 3) >>

\* (\d{4})\.(\d{1,2})\.(\d{1,2})
RegexIsoDot ==
    << Item(ClsDigit, 4, 4, 1), Item(ClsDot, 1, 1, 0),
       Item(ClsDigit, 1, 2, 2), Item(ClsDot, 1, 1, 0),
       Item(ClsDigit, 1, 2, 3) >>

\* (\d{1,2})[-_](\d{1,2})[-_](\d{4})
RegexUsSep ==
    << Item(ClsDigit, 1, 2, 1), Item(ClsDashUnd, 1, 1, 0),
       Item(ClsDigit, 1, 2, 2), Item(ClsDashUnd, 1, 1, 0),
       Item(ClsDigit, 4, 4, 3) >>

\* (\d{1,2})\.(\d{1,2})\.(\d{4})
RegexUsDot ==
    << Item(ClsDigit, 1, 2, 1), Item(ClsDot, 1, 1, 0),
       Item(ClsDigit, 1, 2, 2), Item(ClsDot, 1, 1, 0),
       Item(ClsDigit, 4, 4, 3) >>

\* (\d{4})(\d{2})(\d{2})
RegexCompact ==
    << Item(ClsDigit, 4, 4, 1), Item(ClsDigit, 2, 2, 2), Item(ClsDigit, 2, 2, 3) >>

\* ([a-zA-Z]+)\s*[-_]?\s*(\d{1,2})\s*[-_,]?\s*(\d{4})
RegexWritten ==
    << Item(ClsAlpha, 1, Unbounded, 1),
       Item(ClsSpace, 0, Unbounded, 0), Item(ClsDashUnd, 0, 1, 0),
       Item(ClsSpace, 0, Unbounded, 0), Item(ClsDigit, 1, 2, 2),
       Item(ClsSpace, 0, Unbounded, 0), Item(ClsDashUndComma, 0, 1, 0),
       Item(ClsSpace, 0, Unbounded, 0), Item(ClsDigit, 4, 4, 3) >>

\* (\d{1,2})\s+([a-zA-Z]+)\s+(\d{4})
RegexWrittenReversed ==
    << Item(ClsDigit, 1, 2, 1), Item(ClsSpace, 1, Unbounded, 0),
       Item(ClsAlpha, 1, Unbounded, 2), Item(ClsSpace, 1, Unbounded, 0),
       Item(ClsDigit, 4, 4, 3) >>

PatternsSwapped ==
    << [regex |-> RegexUsSep, format_type |-> "mdy"],
       [regex |-> RegexUsDot, format_type |-> "mdy"],
       [regex |-> RegexIsoSep, format_type |-> "ymd"],
       [regex |-> RegexIsoDot, format_type |-> "ymd"],
       [regex |-> RegexCompact, format_type |-> "ymd_compact"],
       [regex |-> RegexWritten, format_type |-> "written"],
       [regex |-> RegexWrittenReversed, format_type |-> "written_reversed"] >>

\* PATTERNS, in the order of the list
PATTERNS ==
    << [regex |-> RegexIsoSep, format_type |-> "ymd"],
       [regex |-> RegexIsoDot, format_type |-> "ymd"],
       [regex |-> RegexUsSep, format_type |-> "mdy"],
       [regex |-> RegexUsDot, format_type |-> "mdy"],
       [regex |-> RegexCompact, format_type |-> "ymd_compact"],
       [regex |-> RegexWritten, format_type |-> "written"],
       [regex |-> RegexWrittenReversed, format_type |-> "written_reversed"] >>

\* MONTHS.get(key)
MonthsGet(key) ==
    IF \E i \in DOMAIN MONTHS : MONTHS[i].name = key
    THEN Str(MONTHS[CHOOSE i \in DOMAIN MONTHS : MONTHS[i].name = key].num)
    ELSE None

MonthToNumberCaseSensitive(month_name) == MonthsGet(strip(month_name))

\* _month_to_number
month_to_number(month_name) == MonthsGet(strip(lower(month_name)))

\* calendar.isleap
IsLeap(year) == year % 4 = 0 /\ (year % 100 # 0 \/ year % 400 = 0)

DaysInMonthNoLeap(year, month) ==
    IF month = 2 THEN 29
    ELSE IF month \in {4, 6, 9, 11} THEN 30 ELSE 31

\* datetime's days-in-month table
DaysInMonth(year, month) ==
    IF month = 2 THEN (IF IsLeap(year) THEN 29 ELSE 28)
    ELSE IF month \in {4, 6, 9, 11} THEN 30 ELSE 31

\* datetime(year, month, day): the checks of the constructor, ValueError
\* when one fails (MINYEAR = 1, MAXYEAR = 9999)
datetime(year, month, day) ==
    IF /\ 1 <= year /\ year <= 9999
       /\ 1 <= month /\ month <= 12
       /\ 1 <= day /\ day <= DaysInMonth(year, month)
    THEN [kind |-> "datetime", val |-> <<year, month, day>>]
    ELSE Raise("ValueError")

RECURSIVE Decimal(_)
\* the decimal digits of a natural number, no padding
Decimal(n) ==
    IF n < 10 THEN <<DigitChars[n + 1]>>
    ELSE Decimal(n \div 10) \o <<DigitChars[(n % 10) + 1]>>

RECURSIVE ZeroPad(_, _)
ZeroPad(s, width) == IF Len(s) >= width THEN s ELSE ZeroPad(<<"0">> \o s, width)

\* strftime('%Y-%m-%d').  %m and %d are two digits everywhere; %Y is what the
\* C library makes of it: glibc prints the year without padding (a year below
\* 1000 comes out with fewer than four digits), other libraries pad to four.
strftime(date_obj, libc) ==
    LET y == Decimal(date_obj.val[1])
    IN  (IF libc = "glibc" THEN y ELSE ZeroPad(y, 4))
        \o <<"-">> \o ZeroPad(Decimal(date_obj.val[2]), 2)
        \o <<"-">> \o ZeroPad(Decimal(date_obj.val[3]), 2)

\* _format_date: the ValueError of the constructor is caught and gives None
format_date(year, month, day, libc) ==
    LET date_obj == datetime(year, month, day)
    IN  IF IsRaise(date_obj) THEN None ELSE Str(strftime(date_obj, libc))

\* int(year), int(month), int(day) then _format_date; int's ValueError
\* leaves _parse_match
FormatInts(year, month, day, libc) ==
    IF int(year) < 0 \/ int(month) < 0 \/ int(day) < 0 THEN Raise("ValueError")
    ELSE format_date(int(year), int(month), int(day), libc)

\* _parse_match(match, format_type), groups being match.groups()
parse_match(groups, format_type, libc) ==
    CASE format_type \in {"ymd", "ymd_compact"} ->
            FormatInts(groups[1], groups[2], groups[3], libc)
      [] format_type = "mdy" ->
            FormatInts(groups[3], groups[1], groups[2], libc)
      [] format_type = "written" ->
            LET month == month_to_number(groups[1])
            IN  IF month # None THEN FormatInts(groups[3], month.val, groups[2], libc)
                ELSE None
      [] format_type = "written_reversed" ->
            LET month == month_to_number(groups[2])
            IN  IF month # None THEN FormatInts(groups[3], month.val, groups[1], libc)
                ELSE None
      [] OTHER -> None

Groups(items, s, m) == <<Group(items, s, m, 1), Group(items, s, m, 2), Group(items, s, m, 3)>>

RECURSIVE TryPatternFrom(_, _, _, _)
TryPatternFrom(p, filename_, libc, start) ==
    LET match == IF filename_.kind # "str" THEN Raise("TypeError")
                 ELSE SearchFrom(p.regex, filename_.val, start)
    IN  IF IsRaise(match) THEN match
        ELSE IF match.kind = "None" THEN Pending
        ELSE LET date == parse_match(Groups(p.regex, filename_.val, match), p.format_type, libc)
                 later == TryPatternFrom(p, filename_, libc, match.start + 1)
             IN  IF IsRaise(date)
                 THEN (IF date.val[1] \in {"ValueError", "IndexError"} THEN later ELSE date)
                 ELSE IF date = None \/ date.val = <<>> THEN later
                 ELSE date

\* every occurrence of the pattern is tried, from the left, until one
\* yields a date
TryPatternAnyOccurrence(p, filename_, libc) == TryPatternFrom(p, filename_, libc, 1)

\* one turn of the loop of extract_date: Pending stands for "go on with the
\* next pattern" (no match, a falsy date, or a caught ValueError/IndexError)
TryPattern(p, filename_, libc) ==
    LET match == re_search(p.regex, filename_)
    IN  IF IsRaise(match) THEN match
        ELSE IF match.kind = "None" THEN Pending
        ELSE LET date == parse_match(Groups(p.regex, filename_.val, match), p.format_type, libc)
             IN  IF IsRaise(date)
                 THEN (IF date.val[1] \in {"ValueError", "IndexError"} THEN Pending ELSE date)
                 ELSE IF date = None \/ date.val = <<>> THEN Pending
                 ELSE date

RECURSIVE PatternLoopLast(_, _, _, _)
PatternLoopLast(patterns, k, filename_, libc) ==
    IF k > Len(patterns) THEN None
    ELSE LET r == TryPattern(patterns[k], filename_, libc)
             later == PatternLoopLast(patterns, k + 1, filename_, libc)
         IN  IF IsRaise(r) THEN r
             ELSE IF later # None THEN later
             ELSE IF r = Pending THEN None ELSE r

RECURSIVE PatternLoop(_, _, _, _)
\* for pattern, format_type in self.PATTERNS, from the k-th on
PatternLoop(patterns, k, filename_, libc) ==
    IF k > Len(patterns) THEN None
    ELSE LET r == TryPattern(patterns[k], filename_, libc)
         IN  IF r = Pending THEN PatternLoop(patterns, k + 1, filename_, libc) ELSE r

ExtractDateNoGuard(filename_, libc) == PatternLoop(PATTERNS, 1, filename_, libc)

\* extract_date
extract_date(filename_, libc) ==
    IF filename_ = None \/ filename_.val = <<>> THEN None
    ELSE PatternLoop(PATTERNS, 1, filename_, libc)

(***************************************************************************)
(* The caller of extract_date (routers/transcribe.py hands it the name of  *)
(* the uploaded file).  The filename is any string: here it is put         *)
(* together from at most MaxParts parts, dates in every layout of PATTERNS *)
(* (valid and invalid ones) and the text that may surround them.           *)
(***************************************************************************)
MaxParts == 3

Parts ==
    << <<"2", "0", "2", "3", "-", "1", "0", "-", "2", "7">>,
       <<"2", "0", "2", "3", "-", "0", "2", "-", "3", "0">>,
       <<"0", "9", "9", "9", "_", "1", "_", "5">>,
       <<"2", "0", "2", "4", ".", "0", "2", ".", "2", "9">>,
       <<"1", "0", "-", "2", "7", "-", "2", "0", "2", "2">>,
       <<"2", ".", "2", "9", ".", "2", "0", "2", "3">>,
       <<"2", "0", "2", "3", "1", "0", "2", "7">>,
       <<"O", "c", "t", " ", "5", " ", "2", "0", "2", "1">>,
       <<"2", "7", " ", "O", "C", "T", "O", "B", "E", "R", " ", "2", "0", "2", "0">>,
       <<"F", "o", "o">>,
       <<"_">> >>

\* the C libraries the interpreter may be built on: strftime's "%Y" differs
Platforms == {"glibc", "padded"}

InitDate ==
    /\ filename = Str(<<>>)
    /\ result = Pending
    /\ nparts = 0
    /\ entry = 0
    /\ calls = <<>>
    /\ handler = NoRequest

\* the client names its file
AppendPart(i) ==
    /\ result = Pending
    /\ filename # None
    /\ nparts < MaxParts
    /\ filename' = Str(filename.val \o Parts[i])
    /\ nparts' = nparts + 1
    /\ UNCHANGED <<result, entry, calls, handler>>

\* extract_date is handed None
NoFilename ==
    /\ result = Pending
    /\ nparts = 0
    /\ filename # None
    /\ filename' = None
    /\ UNCHANGED <<result, nparts, entry, calls, handler>>

\* detected_date = date_extractor.extract_date(filename)
ExtractDate ==
    /\ result = Pending
    /\ \E libc \in Platforms : result' = extract_date(filename, libc)
    /\ UNCHANGED <<filename, nparts, entry, calls, handler>>

NextDate ==
    \/ \E i \in DOMAIN Parts : AppendPart(i)
    \/ NoFilename
    \/ ExtractDate

SpecDate == InitDate /\ [][NextDate]_vars

(***************************************************************************)
(* Filenames that hold several occurrences of a pattern, valid and invalid *)
(* ones, unknown month names and years of two digits.                      *)
(***************************************************************************)
Occurrences ==
    << <<"2", "0", "2", "3", "-", "0", "2", "-", "3", "0">>,
       <<"2", "0", "2", "3", "-", "1", "0", "-", "2", "7">>,
       <<"F", "o", "o", " ", "1", " ", "2", "0", "2", "2">>,
       <<"O", "c", "t", " ", "5", " ", "2", "0", "2", "1">>,
       <<"1", "0", "-", "2", "7", "-", "2", "3">>,
       <<"0", "9", "9", "9", "_", "1", "_", "5">>,
       <<"1", "3", ".", "1", ".", "2", "0", "2", "2">>,
       <<"_">> >>

AppendOccurrence(i) ==
    /\ result = Pending
    /\ nparts < MaxParts
    /\ filename' = Str(filename.val \o Occurrences[i])
    /\ nparts' = nparts + 1
    /\ UNCHANGED <<result, entry, calls, handler>>

NextOccurrences ==
    \/ \E i \in DOMAIN Occurrences : AppendOccurrence(i)
    \/ ExtractDate

SpecOccurrences == InitDate /\ [][NextOccurrences]_vars

(***************************************************************************)
(* Written dates: the filename spells one entry of MONTHS, month first or  *)
(* day first, and the client may write any of its letters in capitals.     *)
(***************************************************************************)
WrittenName(i) == MONTHS[i].name \o <<" ", "5", " ", "2", "0", "2", "3">>

WrittenReversedName(i) == <<"5", " ">> \o MONTHS[i].name \o <<" ", "2", "0", "2", "3">>

InitMonths ==
    /\ entry \in DOMAIN MONTHS
    /\ filename \in {Str(WrittenName(entry)), Str(WrittenReversedName(entry))}
    /\ result = Pending
    /\ nparts = 1
    /\ calls = <<>>
    /\ handler = NoRequest

\* one letter of the filename is written as a capital
Capitalize(i) ==
    /\ result = Pending
    /\ filename.val[i] \in Range(LowerChars)
    /\ filename' = Str([filename.val EXCEPT ![i] = UpperChar(filename.val[i])])
    /\ UNCHANGED <<result, nparts, entry, calls, handler>>

NextMonths ==
    \/ \E i \in DOMAIN filename.val : Capitalize(i)
    \/ ExtractDate

SpecMonths == InitMonths /\ [][NextMonths]_vars

(***************************************************************************)
(* GeminiService: transcribe_audio, refine_transcript and generate_summary *)
(* under @retry(stop_after_attempt(3), wait_exponential(multiplier=1,      *)
(* min=2, max=30), retry_if_exception_type((TimeoutError,                  *)
(* ConnectionError))).  The decorator runs the coroutine as the unit of    *)
(* work: after each attempt it returns the result, re-raises an error the  *)
(* predicate does not retry, raises RetryError once stop says so, or       *)
(* sleeps for wait's delay and starts the next attempt.                    *)
(***************************************************************************)
NumCalls == 1

MaxPolls == 2

Calls == 1..NumCalls

CallKinds == {"transcribe", "refine", "summarize"}

\* what a call of the provider's SDK may raise
Errors == {"TimeoutError", "ConnectionError", "Exception"}

\* response.text of the provider
Texts == {<<" ", "a", " ">>, <<"b">>}

\* reading response.text: the text, or the ValueError of a response that
\* carries none
TextResults == {Str(t) : t \in Texts} \cup {Raise("ValueError")}

\* the states a file of the provider's Files API may be in
FileStates == {"PROCESSING", "ACTIVE", "FAILED"}

Ok(text) == [kind |-> "ok", val |-> text]

IdleCall ==
    [ kind |-> "none",
      state |-> "Idle",           \* Idle, Attempting, Waiting, Succeeded, FailedTerminal
      pc |-> "none",              \* where the attempt is suspended: poll, generate
      attempt_number |-> 0,       \* retry_state.attempt_number
      invocations |-> 0,          \* times the unit of work was started
      outcomes |-> <<>>,          \* retry_state.outcome of each attempt so far
      slept |-> <<>>,             \* the delays the decorator slept, in seconds
      outcome |-> Pending,        \* what the caller got: a str or a raised error
      file |-> "none",            \* audio_file.state.name of the current attempt
      polls |-> 0,                \* asyncio.sleep(2) of the processing loop
      poll_raised |-> FALSE,      \* genai.get_file raised in the current attempt
      uploaded |-> 0,             \* genai.upload_file calls that went through
      delete_requested |-> 0,     \* genai.delete_file calls made
      deleted |-> 0,              \* genai.delete_file calls that went through
      timer |-> 0,                \* resumptions the decorator's sleep has scheduled
      cancelled |-> "no" ]        \* the state in which the awaiting task was cancelled

RetryAnyException(e) == TRUE

\* retry_if_exception_type((TimeoutError, ConnectionError))
retry_if_exception_type(e) == e \in {"TimeoutError", "ConnectionError"}

RECURSIVE SumInvocations(_, _)
SumInvocations(cs, n) == IF n = 0 THEN 0 ELSE cs[n].invocations + SumInvocations(cs, n - 1)

\* one attempt counter for the whole service, shared by its invocations
StopAfterSharedAttempts(attempt_number) == SumInvocations(calls, Len(calls)) >= 3

StopAfterTwo(attempt_number) == attempt_number >= 2

StopAfterFour(attempt_number) == attempt_number >= 4

\* stop_after_attempt(3)
stop_after_attempt(attempt_number) == attempt_number >= 3

RECURSIVE Pow(_, _)
Pow(b, n) == IF n = 0 THEN 1 ELSE b * Pow(b, n - 1)

Smaller(a, b) == IF a < b THEN a ELSE b

Larger(a, b) == IF a < b THEN b ELSE a

\* min=2 taken for the first delay, doubled from there
WaitExponentialFromMin(attempt_number) ==
    Larger(Larger(0, 2), Smaller(2 * Pow(2, attempt_number - 1), 30))

\* the exponent counts the attempts that are left
WaitExponentialRemaining(attempt_number) ==
    Larger(Larger(0, 2), Smaller(1 * Pow(2, 3 - attempt_number), 30))

\* wait_exponential(multiplier=1, min=2, max=30): exp_base 2
wait_exponential(attempt_number) ==
    Larger(Larger(0, 2), Smaller(1 * Pow(2, attempt_number - 1), 30))

\* only the first attempt's error is tested against the retried types
AfterAttemptFirstOnly(call, out) ==
    LET c == [call EXCEPT !.outcomes = Append(@, out), !.pc = "none"]
    IN  IF out.kind = "ok"
        THEN [c EXCEPT !.state = "Succeeded", !.outcome = Str(out.val)]
        ELSE IF c.attempt_number = 1 /\ ~retry_if_exception_type(out.val[1])
        THEN [c EXCEPT !.state = "FailedTerminal", !.outcome = out]
        ELSE IF stop_after_attempt(c.attempt_number)
        THEN [c EXCEPT !.state = "FailedTerminal", !.outcome = Raise("RetryError")]
        ELSE [c EXCEPT !.state = "Waiting",
                       !.slept = Append(@, wait_exponential(c.attempt_number)),
                       !.attempt_number = @ + 1,
                       !.timer = 1]

\* the next attempt is scheduled without any sleep
AfterAttemptNoSleep(call, out) ==
    LET c == [call EXCEPT !.outcomes = Append(@, out), !.pc = "none"]
    IN  IF out.kind = "ok"
        THEN [c EXCEPT !.state = "Succeeded", !.outcome = Str(out.val)]
        ELSE IF ~retry_if_exception_type(out.val[1])
        THEN [c EXCEPT !.state = "FailedTerminal", !.outcome = out]
        ELSE IF stop_after_attempt(c.attempt_number)
        THEN [c EXCEPT !.state = "FailedTerminal", !.outcome = Raise("RetryError")]
        ELSE [c EXCEPT !.state = "Waiting", !.attempt_number = @ + 1, !.timer = 1]

\* the decorator after an attempt: retry_state.set_result / set_exception,
\* then iter() -- and, on DoSleep, prepare_for_next_attempt and the sleep
AfterAttempt(call, out) ==
    LET c == [call EXCEPT !.outcomes = Append(@, out), !.pc = "none"]
    IN  IF out.kind = "ok"
        THEN [c EXCEPT !.state = "Succeeded", !.outcome = Str(out.val)]
        ELSE IF ~retry_if_exception_type(out.val[1])
        THEN [c EXCEPT !.state = "FailedTerminal", !.outcome = out]
        ELSE IF stop_after_attempt(c.attempt_number)
        THEN [c EXCEPT !.state = "FailedTerminal", !.outcome = Raise("RetryError")]
        ELSE [c EXCEPT !.state = "Waiting",
                       !.slept = Append(@, wait_exponential(c.attempt_number)),
                       !.attempt_number = @ + 1,
                       !.timer = 1]

\* the processing loop gives up with a TimeoutError once a poll has been made
AfterFileStateGivesUp(call, st) ==
    LET c == [call EXCEPT !.file = st]
    IN  IF st = "PROCESSING"
        THEN (IF c.polls >= 1 THEN AfterAttempt(c, Raise("TimeoutError")) ELSE [c EXCEPT !.pc = "poll"])
        ELSE IF st = "FAILED" THEN AfterAttempt(c, Raise("Exception"))
        ELSE [c EXCEPT !.pc = "generate"]

\* transcribe_audio once the file's state is read: the loop goes on while it
\* is PROCESSING, FAILED raises Exception, anything else is transcribed
AfterFileState(call, st) ==
    LET c == [call EXCEPT !.file = st]
    IN  IF st = "PROCESSING" THEN [c EXCEPT !.pc = "poll"]
        ELSE IF st = "FAILED" THEN AfterAttempt(c, Raise("Exception"))
        ELSE [c EXCEPT !.pc = "generate"]

\* the unit of work starts: up to its first await.  For transcribe_audio
\* that is genai.upload_file (up: the state of the uploaded file, or the
\* error raised); the other two go straight to generate_content.
StartAttempt(call, up) ==
    LET c == [call EXCEPT !.state = "Attempting", !.invocations = @ + 1, !.file = "none",
                          !.poll_raised = FALSE, !.timer = 0]
    IN  IF c.kind # "transcribe" THEN [c EXCEPT !.pc = "generate"]
        ELSE IF IsRaise(up) THEN AfterAttempt(c, up)
        ELSE AfterFileState([c EXCEPT !.uploaded = @ + 1], up.val[1])

FileResults == {Raise(e) : e \in Errors} \cup {[kind |-> "file", val |-> <<st>>] : st \in FileStates}

InitRetry ==
    /\ calls = [c \in Calls |-> IdleCall]
    /\ filename = Str(<<>>)
    /\ result = Pending
    /\ nparts = 0
    /\ entry = 0
    /\ handler = NoRequest

\* a router awaits gemini_service.transcribe_audio / refine_transcript /
\* generate_summary
Invoke(c, kind, up) ==
    /\ calls[c].state = "Idle"
    /\ calls' = [calls EXCEPT ![c] =
                    StartAttempt([IdleCall EXCEPT !.kind = kind, !.attempt_number = 1], up)]
    /\ UNCHANGED <<filename, result, nparts, entry, handler>>

\* await asyncio.sleep(2) is over; audio_file = genai.get_file(...)
PollFile(c, got) ==
    /\ calls[c].state = "Attempting"
    /\ calls[c].pc = "poll"
    /\ calls[c].polls < MaxPolls
    /\ calls' = [calls EXCEPT ![c] =
                    LET r == [calls[c] EXCEPT !.polls = @ + 1]
                    IN  IF IsRaise(got) THEN AfterAttempt([r EXCEPT !.poll_raised = TRUE], got)
                        ELSE AfterFileState(r, got.val[1])]
    /\ UNCHANGED <<filename, result, nparts, entry, handler>>

\* await asyncio.to_thread(model.generate_content, ...) raised
GenerateFails(c, e) ==
    /\ calls[c].state = "Attempting"
    /\ calls[c].pc = "generate"
    /\ calls' = [calls EXCEPT ![c] = AfterAttempt(calls[c], Raise(e))]
    /\ UNCHANGED <<filename, result, nparts, entry, handler>>

\* generate_content returned: transcribe_audio deletes the uploaded file
\* (a failure of delete_file is logged and dropped), then response.text is
\* read, stripped and returned
GenerateReturns(c, text, delete_ok) ==
    /\ calls[c].state = "Attempting"
    /\ calls[c].pc = "generate"
    /\ calls' = [calls EXCEPT ![c] =
                    LET q == IF calls[c].kind = "transcribe"
                             THEN [calls[c] EXCEPT !.delete_requested = @ + 1]
                             ELSE calls[c]
                        r == IF calls[c].kind = "transcribe" /\ delete_ok
                             THEN [q EXCEPT !.deleted = @ + 1]
                             ELSE q
                    IN  IF IsRaise(text) THEN AfterAttempt(r, text)
                        ELSE AfterAttempt(r, Ok(strip(text.val)))]
    /\ UNCHANGED <<filename, result, nparts, entry, handler>>

\* the decorator's sleep is over: the next attempt starts
WakeUp(c, up) ==
    /\ calls[c].state = "Waiting"
    /\ calls' = [calls EXCEPT ![c] = StartAttempt(calls[c], up)]
    /\ UNCHANGED <<filename, result, nparts, entry, handler>>

\* the sleep gives the cancellation no way out: the resumption stays
\* scheduled and the retry loop goes on
CancelledSleepGoesOn(call) ==
    IF call.state = "Waiting" THEN call
    ELSE AfterAttempt(call, Raise("CancelledError"))

\* CancelledError is thrown into the call where it is suspended.  In the
\* decorator's sleep it cancels the scheduled resumption and leaves the
\* decorator (the sleep is outside its try); inside the unit of work it
\* passes "except Exception", is recorded as the attempt's outcome and,
\* not being retried, is raised to the caller.
Cancelled(call) ==
    IF call.state = "Waiting"
    THEN [call EXCEPT !.state = "Cancelled", !.timer = 0,
                      !.outcome = Raise("CancelledError")]
    ELSE AfterAttempt(call, Raise("CancelledError"))

\* the task serving the request is cancelled while it awaits the call
CancelRequest(c) ==
    /\ calls[c].state \in {"Attempting", "Waiting"}
    /\ calls[c].cancelled = "no"
    /\ calls' = [calls EXCEPT ![c] =
                    Cancelled([calls[c] EXCEPT !.cancelled = calls[c].state])]
    /\ UNCHANGED <<filename, result, nparts, entry, handler>>

NextRetry ==
    \/ \E c \in Calls, kind \in CallKinds, up \in FileResults : Invoke(c, kind, up)
    \/ \E c \in Calls, got \in FileResults : PollFile(c, got)
    \/ \E c \in Calls, e \in Errors : GenerateFails(c, e)
    \/ \E c \in Calls, text \in TextResults, delete_ok \in BOOLEAN : GenerateReturns(c, text, delete_ok)
    \/ \E c \in Calls, up \in FileResults : WakeUp(c, up)

SpecRetry == InitRetry /\ [][NextRetry]_vars

(***************************************************************************)
(* Concurrent requests: the routers share one module-level GeminiService,  *)
(* and the event loop interleaves the invocations at their awaits.  The    *)
(* provider answers at once here: an upload is ACTIVE or times out, a      *)
(* generation returns, times out or is refused.                            *)
(***************************************************************************)
NumConcurrent == 2

ConcurrentCalls == 1..NumConcurrent

ConcurrentUploads == {Raise("TimeoutError"), [kind |-> "file", val |-> <<"ACTIVE">>]}

InitConcurrent ==
    /\ calls = [c \in ConcurrentCalls |-> IdleCall]
    /\ filename = Str(<<>>)
    /\ result = Pending
    /\ nparts = 0
    /\ entry = 0
    /\ handler = NoRequest

NextConcurrent ==
    \/ \E c \in ConcurrentCalls, kind \in CallKinds, up \in ConcurrentUploads : Invoke(c, kind, up)
    \/ \E c \in ConcurrentCalls, e \in {"TimeoutError", "Exception"} : GenerateFails(c, e)
    \/ \E c \in ConcurrentCalls : GenerateReturns(c, Str(<<"b">>), TRUE)
    \/ \E c \in ConcurrentCalls, up \in ConcurrentUploads : WakeUp(c, up)

SpecConcurrent == InitConcurrent /\ [][NextConcurrent]_vars

(***************************************************************************)
(* One invocation whose request may be abandoned: the task that awaits the *)
(* call is cancelled at any moment the call is suspended.                  *)
(***************************************************************************)
InitCancel ==
    /\ calls = <<IdleCall>>
    /\ filename = Str(<<>>)
    /\ result = Pending
    /\ nparts = 0
    /\ entry = 0
    /\ handler = NoRequest

NextCancel ==
    \/ \E kind \in CallKinds, up \in FileResults : Invoke(1, kind, up)
    \/ \E got \in FileResults : PollFile(1, got)
    \/ \E e \in Errors : GenerateFails(1, e)
    \/ \E text \in TextResults, delete_ok \in BOOLEAN : GenerateReturns(1, text, delete_ok)
    \/ \E up \in FileResults : WakeUp(1, up)
    \/ CancelRequest(1)

SpecCancel == InitCancel /\ [][NextCancel]_vars

Processing == [kind |-> "file", val |-> <<"PROCESSING">>]

\* one invocation whose every attempt finishes: once the polls of the model
\* are used up, the provider does not answer PROCESSING again
PollFileFinishes(c, got) ==
    /\ PollFile(c, got)
    /\ calls[c].polls + 1 = MaxPolls => got # Processing

\* the attempt that is under way goes on
AttemptStep(c) ==
    \/ \E got \in FileResults : PollFileFinishes(c, got)
    \/ \E e \in Errors : GenerateFails(c, e)
    \/ \E text \in TextResults, delete_ok \in BOOLEAN : GenerateReturns(c, text, delete_ok)

\* the event loop resumes the decorator when its sleep is over
SleepEnds(c) ==
    \E up \in FileResults :
        /\ WakeUp(c, up)
        /\ calls[c].polls = MaxPolls => up # Processing

NextFinishing ==
    \/ \E kind \in CallKinds, up \in FileResults : Invoke(1, kind, up)
    \/ AttemptStep(1)
    \/ SleepEnds(1)

\* the event loop runs every timer that is due, and every await of the
\* unit of work is answered
SpecFinishing ==
    /\ InitCancel
    /\ [][NextFinishing]_vars
    /\ WF_vars(AttemptStep(1))
    /\ WF_vars(SleepEnds(1))

(***************************************************************************)
(* routers/transcribe.py: POST /transcribe.  The handler checks the        *)
(* upload, saves it to a temp file, extracts the date from the filename,   *)
(* awaits gemini_service.transcribe_audio and maps what it gets to a       *)
(* response; its finally clause removes the temp file.                     *)
(***************************************************************************)
allowed_audio_extensions ==
    { <<".", "m", "p", "3">>,
      <<".", "w", "a", "v">>,
      <<".", "m", "4", "a">>,
      <<".", "o", "g", "g">>,
      <<".", "w", "e", "b", "m">> }

max_file_size_mb == 100

max_file_size_bytes == max_file_size_mb * 1024 * 1024

RECURSIVE rfind(_, _, _)
\* str.rfind, 1-based: the last position of ch in s[1..n], 0 when there is none
rfind(s, ch, n) == IF n = 0 THEN 0 ELSE IF s[n] = ch THEN n ELSE rfind(s, ch, n - 1)

RECURSIVE DropTrailingSlashes(_)
DropTrailingSlashes(s) ==
    IF s # <<>> /\ s[Len(s)] = "/" THEN DropTrailingSlashes(SubSeq(s, 1, Len(s) - 1)) ELSE s

\* PurePath.name: the final component of the path
PathName(s) ==
    LET t == DropTrailingSlashes(s)
    IN  SubSeq(t, rfind(t, "/", Len(t)) + 1, Len(t))

\* PurePath.suffix: from the last dot of the name, unless the name starts
\* or ends with that dot
suffix(s) ==
    LET name == PathName(s)
        i == rfind(name, ".", Len(name))
    IN  IF 1 < i /\ i < Len(name) THEN SubSeq(name, i, Len(name)) ELSE <<>>

\* filename = file.filename or "audio_file"
FilenameOf(name) ==
    IF name = None \/ name.val = <<>> THEN <<"a", "u", "d", "i", "o", "_", "f", "i", "l", "e">> ELSE name.val

\* the checks of lines 96-119, in their order: the status they raise, 0
\* when the upload passes
ValidateUploadAllowsEmpty(file_ext, file_size) ==
    IF file_ext \notin allowed_audio_extensions THEN 400
    ELSE IF file_size > max_file_size_bytes THEN 400
    ELSE 0

ValidateUpload(file_ext, file_size) ==
    IF file_ext \notin allowed_audio_extensions THEN 400
    ELSE IF file_size > max_file_size_bytes THEN 400
    ELSE IF file_size = 0 THEN 400
    ELSE 0

\* the finally clause: the temp file is removed when temp_path is set and
\* the file exists; a failing os.remove is logged and dropped
Cleanup(h, remove_ok) ==
    IF h.temp_path # None /\ h.disk # "absent" /\ remove_ok
    THEN [h EXCEPT !.disk = "absent", !.pc = "done"]
    ELSE [h EXCEPT !.pc = "done"]

\* raise HTTPException(status_code=..., detail=...)
HTTPException(status_code) == [kind |-> "raise", val |-> <<"HTTPException", status_code>>]

\* detail=f"... failed: {str(e)}" of the "except Exception as e" clauses:
\* the text of the error, when that clause made the response
ErrorText(outcome, status_code) ==
    IF IsRaise(outcome) /\ outcome.val[1] # "HTTPException" /\ status_code = 500
    THEN Str(<<outcome.val[1]>>)
    ELSE None

\* the handler's try block ended with this outcome (raised or returned) and
\* one of its except clauses, or the return, made the response
Respond(h, outcome, status_code) ==
    [h EXCEPT !.raised = IF IsRaise(outcome) THEN outcome ELSE None,
              !.status = status_code,
              !.error_text = ErrorText(outcome, status_code)]

\* the except clauses of /transcribe: HTTPException as it is, TimeoutError
\* as 408, any other Exception as 500; CancelledError is no Exception and
\* leaves the handler without a response
TranscribeStatus(outcome) ==
    IF ~IsRaise(outcome) THEN 200
    ELSE IF outcome.val[1] = "HTTPException" THEN outcome.val[2]
    ELSE IF outcome.val[1] = "TimeoutError" THEN 408
    ELSE IF outcome.val[1] = "CancelledError" THEN 0
    ELSE 500

\* the names and sizes a client may upload
UploadNames ==
    { None, Str(<<>>),
      Str(<<"a", ".", "m", "p", "3">>), Str(<<"A", ".", "M", "P", "3">>), Str(<<"d", "/", "2", "0", "2", "3", "-", "1", "0", "-", "2", "7", ".", "o", "g", "g">>),
      Str(<<".", "m", "p", "3">>), Str(<<"a", ".">>), Str(<<"a", ".", "t", "x", "t">>),
      Str(<<"a", ".", "m", "p", "3", ".", "t", "x", "t">>), Str(<<"m", "p", "3">>), Str(<<"a", ".", "m", "p", "3", "/", "b">>) }

UploadSizes == {0, 1, max_file_size_bytes, max_file_size_bytes + 1}

\* what save_temp_file may do: write the file, fail to open it, or fail in
\* f.write after the file was created
SaveResults == {"saved", "open_failed", "write_failed"}

\* the request arrives: lines 88-121
ReceiveTranscribe(name, size) ==
    /\ handler.pc = "idle"
    /\ handler' =
          LET file_ext == lower(suffix(FilenameOf(name)))
              h == [handler EXCEPT !.route = "transcribe", !.name = name,
                                   !.size = size, !.file_ext = file_ext]
              st == ValidateUpload(file_ext, size)
          IN  IF st # 0
              THEN Cleanup(Respond(h, HTTPException(st), TranscribeStatus(HTTPException(st))), TRUE)
              ELSE [h EXCEPT !.pc = "save"]
    /\ UNCHANGED <<filename, result, nparts, entry, calls>>

\* lines 123-134: save_temp_file; when it returns, the date is extracted
\* and transcribe_audio starts (up to its first await); when it raises,
\* the handler answers 500 and its finally clause runs with temp_path
\* still None
SaveTempFile(out, libc, up) ==
    /\ handler.pc = "save"
    /\ IF out = "saved"
       THEN /\ handler' = [handler EXCEPT
                    !.saves = @ + 1,
                    !.disk = "complete",
                    !.temp_path = Str(<<"audio_">> \o handler.file_ext),
                    !.detected_date = extract_date(Str(FilenameOf(handler.name)), libc),
                    !.pc = "call"]
            /\ calls' = [calls EXCEPT ![1] =
                    StartAttempt([IdleCall EXCEPT !.kind = "transcribe",
                                                  !.attempt_number = 1], up)]
       ELSE /\ handler' = Cleanup(Respond([handler EXCEPT
                    !.saves = @ + 1,
                    !.disk = IF out = "write_failed" THEN "partial" ELSE "absent"],
                    Raise("Exception"), TranscribeStatus(Raise("Exception"))), TRUE)
            /\ UNCHANGED calls
    /\ UNCHANGED <<filename, result, nparts, entry>>

\* lines 134-172: transcribe_audio has returned or raised; the response is
\* built or the exception mapped, then the finally clause runs
TranscribeReturns(remove_ok) ==
    /\ handler.route = "transcribe"
    /\ handler.pc = "call"
    /\ calls[1].state \in {"Succeeded", "FailedTerminal", "Cancelled"}
    /\ handler' = Cleanup(Respond(handler, calls[1].outcome,
                                  TranscribeStatus(calls[1].outcome)), remove_ok)
    /\ UNCHANGED <<filename, result, nparts, entry, calls>>

(***************************************************************************)
(* routers/refine.py: POST /refine.  The body is validated as a            *)
(* RefinementRequest (models.py) before the handler runs; a body that      *)
(* fails is answered 422.  A dict is the sequence of its (key, value)      *)
(* pairs.                                                                  *)
(***************************************************************************)
Dict(pairs) == [kind |-> "dict", val |-> pairs]

Body(transcript, speaker_mapping) ==
    [kind |-> "body", val |-> <<>>, transcript |-> transcript,
     speaker_mapping |-> speaker_mapping]

\* the validator compares the key and the value untrimmed
ValidateSpeakerMappingUntrimmed(v) ==
    /\ v.val # <<>>
    /\ \A i \in DOMAIN v.val : v.val[i][1] # <<>> /\ v.val[i][2] # <<>>

\* RefinementRequest.validate_speaker_mapping: TRUE when it returns v,
\* FALSE when it raises ValueError
validate_speaker_mapping(v) ==
    /\ v.val # <<>>
    /\ \A i \in DOMAIN v.val : strip(v.val[i][1]) # <<>> /\ strip(v.val[i][2]) # <<>>

\* RefinementRequest(**body): both fields required, transcript of
\* min_length 10, speaker_mapping of min_length 1 and passing its validator
RefinementRequest(body) ==
    /\ body.transcript # None
    /\ Len(body.transcript.val) >= 10
    /\ body.speaker_mapping # None
    /\ Len(body.speaker_mapping.val) >= 1
    /\ validate_speaker_mapping(body.speaker_mapping)

(***************************************************************************)
(* routers/refine.py: detect_changes.  A change description is the text    *)
(* the f-string builds; the list is the sequence of the descriptions.      *)
(***************************************************************************)
List(items) == [kind |-> "list", val |-> items]

\* sub in s
Contains(sub, s) ==
    \E i \in 1..(Len(s) - Len(sub) + 1) : SubSeq(s, i, i + Len(sub) - 1) = sub

RECURSIVE CountFrom(_, _, _)
CountFrom(s, sub, i) ==
    IF i + Len(sub) - 1 > Len(s) THEN 0
    ELSE IF SubSeq(s, i, i + Len(sub) - 1) = sub
    THEN 1 + CountFrom(s, sub, i + Len(sub))
    ELSE CountFrom(s, sub, i + 1)

\* s.count(sub): the occurrences that do not overlap, from the left; the
\* empty string occurs len(s) + 1 times
count(s, sub) == IF sub = <<>> THEN Len(s) + 1 ELSE CountFrom(s, sub, 1)

\* "No changes were necessary"
NoChangesText ==
    <<"N", "o", " ", "c", "h", "a", "n", "g", "e", "s", " ", "w",
       "e", "r", "e", " ", "n", "e", "c", "e", "s", "s", "a", "r", "y">>

\* "Speaker names updated and grammar adjusted"
GeneralChangesText ==
    <<"S", "p", "e", "a", "k", "e", "r", " ", "n", "a", "m", "e",
       "s", " ", "u", "p", "d", "a", "t", "e", "d", " ", "a", "n",
       "d", " ", "g", "r", "a", "m", "m", "a", "r", " ", "a", "d",
       "j", "u", "s", "t", "e", "d">>

\* "Replaced '"
ReplacedPrefix ==
    <<"R", "e", "p", "l", "a", "c", "e", "d", " ", "'">>

\* f"Replaced '{placeholder}' with '{real_name}' ({original_count} occurrences)"
ReplacedText(placeholder, real_name, original_count) ==
    ReplacedPrefix \o placeholder \o <<"'", " ", "w", "i", "t", "h", " ", "'">> \o real_name
        \o <<"'", " ", "(">> \o Decimal(original_count)
        \o <<" ", "o", "c", "c", "u", "r", "r", "e", "n", "c", "e", "s", ")">>

\* the body of the loop over mapping.items(), for one item: the changes
\* it appends
MappingItem(original, refined, placeholder, real_name) ==
    IF Contains(placeholder, original) /\ Contains(real_name, refined)
    THEN LET bracketed == count(original, <<"[">> \o placeholder \o <<"]">>)
             original_count == IF bracketed = 0 THEN count(original, placeholder)
                               ELSE bracketed
         IN  IF original_count > 0
             THEN <<ReplacedText(placeholder, real_name, original_count)>>
             ELSE <<>>
    ELSE <<>>

RECURSIVE MappingLoop(_, _, _, _)
\* for placeholder, real_name in mapping.items(), from the k-th item on
MappingLoop(original, refined, pairs, k) ==
    IF k > Len(pairs) THEN <<>>
    ELSE MappingItem(original, refined, pairs[k][1], pairs[k][2])
            \o MappingLoop(original, refined, pairs, k + 1)

\* nothing is appended when the mapping gave no change and the texts differ
DetectChangesNoGeneralEntry(original, refined, mapping) ==
    LET changes == MappingLoop(original, refined, mapping.val, 1)
    IN  IF strip(original) = strip(refined) THEN Append(changes, NoChangesText)
        ELSE changes

\* detect_changes
detect_changes(original, refined, mapping) ==
    LET changes == MappingLoop(original, refined, mapping.val, 1)
    IN  IF strip(original) = strip(refined) THEN Append(changes, NoChangesText)
        ELSE IF changes = <<>> THEN <<GeneralChangesText>>
        ELSE changes

\* the except clauses of /refine: any Exception as 500
RefineStatus(outcome) ==
    IF ~IsRaise(outcome) THEN 200
    ELSE IF outcome.val[1] = "HTTPException" THEN outcome.val[2]
    ELSE IF outcome.val[1] = "CancelledError" THEN 0
    ELSE 500

Transcripts ==
    { None, Str(<<"H", "i">>), Str(<<"[", "A", "]", ":", " ", "h", "i", " ", "t">>), Str(<<"[", "A", "]", ":", " ", "h", "i", " ", "y", "o">>), Str(<<" ", " ", " ", " ", " ", " ", " ", " ", " ", " ">>) }

SpeakerMappings ==
    { None, Dict(<<>>),
      Dict(<< <<<<"A">>, <<"A", "l">>>> >>),
      Dict(<< <<<<>>, <<"A", "l">>>> >>),
      Dict(<< <<<<" ">>, <<"A", "l">>>> >>),
      Dict(<< <<<<"A">>, <<>>>> >>),
      Dict(<< <<<<"A">>, <<" ", " ">>>> >>),
      Dict(<< <<<<"A">>, <<"A", "l">>>>, <<<<"B">>, <<" ">>>> >>),
      Dict(<< <<<<"A">>, <<"A", "l">>>>, <<<<"B">>, <<"B", "o">>>> >>) }

\* the request arrives: validation of the body, then lines 87-120 up to the
\* await inside refine_transcript
ReceiveRefine(transcript, speaker_mapping) ==
    /\ handler.pc = "idle"
    /\ LET body == Body(transcript, speaker_mapping)
           h == [handler EXCEPT !.route = "refine", !.body = body]
       IN  IF ~RefinementRequest(body)
           THEN /\ handler' = [h EXCEPT !.status = 422, !.pc = "done"]
                /\ UNCHANGED calls
           ELSE IF body.speaker_mapping.val = <<>>
           THEN /\ handler' = [Respond(h, HTTPException(400), RefineStatus(HTTPException(400)))
                                    EXCEPT !.pc = "done"]
                /\ UNCHANGED calls
           ELSE /\ handler' = [h EXCEPT !.pc = "call"]
                /\ calls' = [calls EXCEPT ![1] =
                        StartAttempt([IdleCall EXCEPT !.kind = "refine",
                                                      !.attempt_number = 1], None)]
    /\ UNCHANGED <<filename, result, nparts, entry>>

\* lines 116-146: refine_transcript has returned or raised
RefineReturns ==
    /\ handler.route = "refine"
    /\ handler.pc = "call"
    /\ calls[1].state \in {"Succeeded", "FailedTerminal", "Cancelled"}
    /\ handler' =
          LET h == [Respond(handler, calls[1].outcome, RefineStatus(calls[1].outcome))
                        EXCEPT !.pc = "done"]
          IN  IF IsRaise(calls[1].outcome) THEN h
              ELSE [h EXCEPT !.refined = calls[1].outcome,
                             !.changes_made =
                                List(detect_changes(handler.body.transcript.val,
                                                    calls[1].outcome.val,
                                                    handler.body.speaker_mapping))]
    /\ UNCHANGED <<filename, result, nparts, entry, calls>>

(***************************************************************************)
(* routers/summarize.py: POST /summarize.  The body is validated as a      *)
(* TranscriptRequest (models.py) before the handler runs; a body that      *)
(* fails is answered 422.                                                  *)
(***************************************************************************)
SummaryBody(text, date, title) ==
    [kind |-> "body", val |-> <<>>, text |-> text, date |-> date, title |-> title]

Repeat(ch, n) == [i \in 1..n |-> ch]

\* the patterns of validate_date_format, "d" standing for \d:
\* ^\d{4}-\d{2}-\d{2}$, ^\d{2}/\d{2}/\d{4}$, ^\d{2}-\d{2}-\d{4}$
DatePatterns ==
    << <<"d", "d", "d", "d", "-", "d", "d", "-", "d", "d">>,
       <<"d", "d", "/", "d", "d", "/", "d", "d", "d", "d">>,
       <<"d", "d", "-", "d", "d", "-", "d", "d", "d", "d">> >>

\* re.match(pattern, v) for such a pattern: "$" also matches before a
\* newline that ends the string
re_match(pattern, v) ==
    /\ \/ Len(v) = Len(pattern)
       \/ Len(v) = Len(pattern) + 1 /\ v[Len(v)] = "\n"
    /\ \A i \in DOMAIN pattern :
          IF pattern[i] = "d" THEN v[i] \in ClsDigit ELSE v[i] = pattern[i]

\* TranscriptRequest.validate_date_format: TRUE when it returns v, FALSE
\* when it raises ValueError
validate_date_format(v) == \E k \in DOMAIN DatePatterns : re_match(DatePatterns[k], v)

\* TranscriptRequest(**body): text required, of min_length 50; date
\* required and passing its validator; title optional
TranscriptRequest(body) ==
    /\ body.text # None
    /\ Len(body.text.val) >= 50
    /\ body.date # None
    /\ validate_date_format(body.date.val)

\* the handler compares the length of the text as it came
TextTooShortUntrimmed(text) == Len(text) < 50

\* len(request.text.strip()) < 50
TextTooShort(text) == Len(strip(text)) < 50

\* every exception is answered 500
SummarizeStatusAllAs500(outcome) ==
    IF ~IsRaise(outcome) THEN 200
    ELSE IF outcome.val[1] = "CancelledError" THEN 0
    ELSE 500

\* the except clauses of /summarize: HTTPException as it is, any other
\* Exception as 500
SummarizeStatus(outcome) ==
    IF ~IsRaise(outcome) THEN 200
    ELSE IF outcome.val[1] = "HTTPException" THEN outcome.val[2]
    ELSE IF outcome.val[1] = "CancelledError" THEN 0
    ELSE 500

SummaryTexts ==
    { None,
      Str(<<"T", "o", "o", " ", "s", "h", "o", "r", "t">>),
      Str(Repeat("a", 49)),
      Str(Repeat(" ", 50)),
      Str(<<" ">> \o Repeat("a", 49) \o <<" ">>),
      Str(Repeat("a", 50)),
      Str(<<" ">> \o Repeat("a", 50)) }

SummaryDates ==
    { None,
      Str(<<"2", "0", "2", "4", "-", "0", "1", "-", "1", "5">>),
      Str(<<"0", "1", "/", "1", "5", "/", "2", "0", "2", "4", "\n">>),
      Str(<<"2", "0", "2", "4", "-", "1", "-", "5">>) }

SummaryTitles == { None, Str(<<"Q", "3">>) }

\* the request arrives: validation of the body, then lines 72-92 up to the
\* await inside generate_summary
ReceiveSummarize(text, date, title) ==
    /\ handler.pc = "idle"
    /\ LET body == SummaryBody(text, date, title)
           h == [handler EXCEPT !.route = "summarize", !.body = body]
       IN  IF ~TranscriptRequest(body)
           THEN /\ handler' = [h EXCEPT !.status = 422, !.pc = "done"]
                /\ UNCHANGED calls
           ELSE IF TextTooShort(body.text.val)
           THEN /\ handler' = [Respond(h, HTTPException(400), SummarizeStatus(HTTPException(400)))
                                    EXCEPT !.pc = "done"]
                /\ UNCHANGED calls
           ELSE /\ handler' = [h EXCEPT !.pc = "call"]
                /\ calls' = [calls EXCEPT ![1] =
                        StartAttempt([IdleCall EXCEPT !.kind = "summarize",
                                                      !.attempt_number = 1], None)]
    /\ UNCHANGED <<filename, result, nparts, entry>>

\* lines 88-114: generate_summary has returned or raised
SummarizeReturns ==
    /\ handler.route = "summarize"
    /\ handler.pc = "call"
    /\ calls[1].state \in {"Succeeded", "FailedTerminal", "Cancelled"}
    /\ handler' = [Respond(handler, calls[1].outcome, SummarizeStatus(calls[1].outcome))
                        EXCEPT !.pc = "done"]
    /\ UNCHANGED <<filename, result, nparts, entry, calls>>

InitRequest ==
    /\ calls = <<IdleCall>>
    /\ handler = NoRequest
    /\ filename = Str(<<>>)
    /\ result = Pending
    /\ nparts = 0
    /\ entry = 0

NextRequest ==
    \/ \E name \in UploadNames, size \in UploadSizes : ReceiveTranscribe(name, size)
    \/ \E out \in SaveResults, libc \in Platforms, up \in FileResults : SaveTempFile(out, libc, up)
    \/ \E got \in FileResults : PollFile(1, got)
    \/ \E e \in Errors : GenerateFails(1, e)
    \/ \E text \in TextResults, delete_ok \in BOOLEAN : GenerateReturns(1, text, delete_ok)
    \/ \E up \in FileResults : WakeUp(1, up)
    \/ \E remove_ok \in BOOLEAN : TranscribeReturns(remove_ok)
    \/ \E transcript \in Transcripts, speaker_mapping \in SpeakerMappings :
            ReceiveRefine(transcript, speaker_mapping)
    \/ RefineReturns
    \/ \E text \in SummaryTexts, date \in SummaryDates, title \in SummaryTitles :
            ReceiveSummarize(text, date, title)
    \/ SummarizeReturns

SpecRequest == InitRequest /\ [][NextRequest]_vars

(***************************************************************************)
(* detect_changes called on its own, as routers/refine.py and the tests    *)
(* call it: the original and the refined text are put together from at     *)
(* most MaxWords words, the mapping is any dict of strings.                *)
(***************************************************************************)
MaxWords == 2

Words == << <<"[", "A", "]">>, <<"A">>, <<" ">>, <<"A", "l">> >>

RECURSIVE TextsOf(_)
TextsOf(n) ==
    IF n = 0 THEN {<<>>}
    ELSE TextsOf(n - 1) \cup {t \o Words[i] : t \in TextsOf(n - 1), i \in DOMAIN Words}

ChangeMappings ==
    { Dict(<<>>),
      Dict(<< <<<<"A">>, <<"A", "l">>>> >>),
      Dict(<< <<<<"A">>, <<"A">>>> >>),
      Dict(<< <<<<"A">>, <<"A", "l">>>>, <<<<"l">>, <<"A">>>> >>) }

InitChanges ==
    /\ handler \in { [NoRequest EXCEPT !.body = Body(Str(original), mapping),
                                       !.refined = Str(refined)] :
                        original \in TextsOf(MaxWords), refined \in TextsOf(MaxWords),
                        mapping \in ChangeMappings }
    /\ calls = <<>>
    /\ filename = Str(<<>>)
    /\ result = Pending
    /\ nparts = 0
    /\ entry = 0

\* changes = detect_changes(original=..., refined=..., mapping=...)
DetectChanges ==
    /\ handler.changes_made = None
    /\ handler' = [handler EXCEPT !.changes_made =
                        List(detect_changes(handler.body.transcript.val, handler.refined.val,
                                            handler.body.speaker_mapping))]
    /\ UNCHANGED <<filename, result, nparts, entry, calls>>

NextChanges == DetectChanges

SpecChanges == InitChanges /\ [][NextChanges]_vars

(***************************************************************************)
(* Vocabulary of the properties: what a filename contains, stated on the   *)
(* characters, and the date a result denotes.                              *)
(***************************************************************************)
Done == result # Pending

Name == filename.val

IsDigitAt(s, i) == i \in DOMAIN s /\ s[i] \in ClsDigit

IsSepAt(s, i) == i \in DOMAIN s /\ s[i] \in {"-", "_"}

Num(s, i, n) == DigitsValue(SubSeq(s, i, i + n - 1))

MonthLengths == <<31, 28, 31, 30, 31, 30, 31, 31, 30, 31, 30, 31>>

LeapYear(y) == IF y % 100 = 0 THEN y % 400 = 0 ELSE y % 4 = 0

\* a real day of the Gregorian calendar
CalendarValid(t) ==
    /\ t[1] \in 1..9999
    /\ t[2] \in 1..12
    /\ t[3] >= 1
    /\ t[3] <= MonthLengths[t[2]] + (IF t[2] = 2 /\ LeapYear(t[1]) THEN 1 ELSE 0)

\* the ways YYYY[-_]M[M][-_]D[D] can lie at position p: <<month digits, day digits>>
IsoShapesAt(s, p) ==
    {w \in {1, 2} \X {1, 2} :
        /\ \A i \in p..(p + 3) : IsDigitAt(s, i)
        /\ IsSepAt(s, p + 4)
        /\ \A i \in (p + 5)..(p + 4 + w[1]) : IsDigitAt(s, i)
        /\ IsSepAt(s, p + 5 + w[1])
        /\ \A i \in (p + 6 + w[1])..(p + 5 + w[1] + w[2]) : IsDigitAt(s, i)}

IsoAt(s, p) == IsoShapesAt(s, p) # {}

\* the triple the separated ISO pattern reads at p: it takes the longest day
IsoTripleAt(s, p) ==
    LET w == CHOOSE v \in IsoShapesAt(s, p) : \A u \in IsoShapesAt(s, p) : u[2] <= v[2]
    IN  <<Num(s, p, 4), Num(s, p + 5, w[1]), Num(s, p + 6 + w[1], w[2])>>

\* a YYYY-MM-DD substring at p, two digits each for month and day
StrictIsoAt(s, p) ==
    /\ <<2, 2>> \in IsoShapesAt(s, p)
    /\ s[p + 4] = "-"
    /\ s[p + 7] = "-"

StrictIsoTripleAt(s, p) == <<Num(s, p, 4), Num(s, p + 5, 2), Num(s, p + 8, 2)>>

\* the ways M[M][-_]D[D][-_]YYYY can lie at position p
UsShapesAt(s, p) ==
    {w \in {1, 2} \X {1, 2} :
        /\ \A i \in p..(p + w[1] - 1) : IsDigitAt(s, i)
        /\ IsSepAt(s, p + w[1])
        /\ \A i \in (p + w[1] + 1)..(p + w[1] + w[2]) : IsDigitAt(s, i)
        /\ IsSepAt(s, p + w[1] + w[2] + 1)
        /\ \A i \in (p + w[1] + w[2] + 2)..(p + w[1] + w[2] + 5) : IsDigitAt(s, i)}

UsAt(s, p) == UsShapesAt(s, p) # {}

UsTriplesAt(s, p) ==
    {<<Num(s, p + w[1] + w[2] + 2, 4), Num(s, p, w[1]), Num(s, p + w[1] + 1, w[2])>> :
        w \in UsShapesAt(s, p)}

Max(S) == CHOOSE x \in S : \A y \in S : y <= x

IsoLen(s, p) == 6 + Max({w[1] + w[2] : w \in IsoShapesAt(s, p)})

UsLen(s, p) == 6 + Max({w[1] + w[2] : w \in UsShapesAt(s, p)})

\* the ISO occurrence at p and the US occurrence at q share no character
Apart(s, p, q) == q >= p + IsoLen(s, p) \/ p >= q + UsLen(s, q)

IsoStarts(s) == {p \in DOMAIN s : IsoAt(s, p)}

UsStarts(s) == {p \in DOMAIN s : UsAt(s, p)}

Min(S) == CHOOSE x \in S : \A y \in S : x <= y

DashesOf(s) == {i \in DOMAIN s : s[i] = "-"}

\* the <<year, month, day>> a result string denotes
DateOf(v) ==
    IF v.kind = "str" /\ Cardinality(DashesOf(v.val)) = 2
    THEN LET a == CHOOSE i \in DashesOf(v.val) : \A j \in DashesOf(v.val) : i <= j
             b == CHOOSE i \in DashesOf(v.val) : \A j \in DashesOf(v.val) : j <= i
         IN  <<int(SubSeq(v.val, 1, a - 1)), int(SubSeq(v.val, a + 1, b - 1)),
               int(SubSeq(v.val, b + 1, Len(v.val)))>>
    ELSE <<-1, -1, -1>>

(***************************************************************************)
(* C1.  As stated: whenever the filename contains a calendar-valid         *)
(* YYYY-MM-DD substring, extract_date returns exactly that date, whatever  *)
(* comes before it.                                                        *)
(***************************************************************************)
C1_AnyValidIsoSubstringIsReturned ==
    (Done /\ filename.kind = "str") =>
        LET date == DateOf(result)
        IN  \A p \in IsoStarts(Name) :
                (StrictIsoAt(Name, p) /\ CalendarValid(StrictIsoTripleAt(Name, p)))
                    => date = StrictIsoTripleAt(Name, p)

(***************************************************************************)
(* C1, amended: a calendar-valid YYYY-MM-DD substring that no other        *)
(* occurrence of the separated ISO pattern precedes is the date returned,  *)
(* whatever text or digits surround it.                                    *)
(***************************************************************************)
C1_LeftmostValidIsoIsReturned ==
    (Done /\ filename.kind = "str") =>
        LET starts == IsoStarts(Name)
            p == Min(starts)
        IN  (starts # {} /\ StrictIsoAt(Name, p) /\ CalendarValid(StrictIsoTripleAt(Name, p)))
                => DateOf(result) = StrictIsoTripleAt(Name, p)

\* a valid YYYY-MM-DD with a digit right before it and text after it was returned
C1_Witness ==
    /\ Done
    /\ filename.kind = "str"
    /\ IsoStarts(Name) # {}
    /\ LET p == Min(IsoStarts(Name))
       IN  /\ p > 1
           /\ IsDigitAt(Name, p - 1)
           /\ p + 10 <= Len(Name)
           /\ StrictIsoAt(Name, p)
           /\ DateOf(result) = StrictIsoTripleAt(Name, p)

(***************************************************************************)
(* C2.  As stated: a filename that contains both a separated ISO date and  *)
(* a separated US date yields the ISO interpretation.  Read in the claim's *)
(* favour: both substrings are calendar-valid, the US one overlaps no ISO   *)
(* occurrence, and any ISO substring's date will do.                       *)
(***************************************************************************)
C2_IsoAlwaysBeatsUs ==
    (/\ Done
     /\ filename.kind = "str"
     /\ \E p \in IsoStarts(Name) : CalendarValid(IsoTripleAt(Name, p))
     /\ \E q \in UsStarts(Name) :
            /\ \E t \in UsTriplesAt(Name, q) : CalendarValid(t)
            /\ \A p \in IsoStarts(Name) : Apart(Name, p, q))
        => \E p \in IsoStarts(Name) : DateOf(result) = IsoTripleAt(Name, p)

(***************************************************************************)
(* C2, amended: when the filename contains a US-pattern substring and its  *)
(* leftmost ISO-pattern occurrence is calendar-valid, the result is the    *)
(* ISO interpretation of that occurrence, whichever of the two comes first.*)
(***************************************************************************)
C2_LeftmostValidIsoBeatsUs ==
    (Done /\ filename.kind = "str") =>
        LET starts == IsoStarts(Name)
            p == Min(starts)
            iso == IsoTripleAt(Name, p)
        IN  (starts # {} /\ CalendarValid(iso) /\ \E q \in DOMAIN Name : UsAt(Name, q))
                => DateOf(result) = iso

\* a valid US date stands before the ISO date, and the ISO date was returned
C2_Witness ==
    /\ Done
    /\ filename.kind = "str"
    /\ IsoStarts(Name) # {}
    /\ LET p == Min(IsoStarts(Name))
       IN  /\ DateOf(result) = IsoTripleAt(Name, p)
           /\ \E q \in UsStarts(Name) :
                /\ q < p
                /\ \E t \in UsTriplesAt(Name, q) : CalendarValid(t) /\ t # IsoTripleAt(Name, p)

(***************************************************************************)
(* C3.  The result is absence or a real calendar date.                     *)
(***************************************************************************)
C3_ResultIsNoneOrRealDate ==
    Done => (result = None \/ (result.kind = "str" /\ CalendarValid(DateOf(result))))

\* the filename's ISO occurrence is no real date (Feb 30), and the date of a
\* lower pattern was returned instead
C3_Witness ==
    /\ Done
    /\ filename.kind = "str"
    /\ IsoStarts(Name) # {}
    /\ ~CalendarValid(IsoTripleAt(Name, Min(IsoStarts(Name))))
    /\ result.kind = "str"

(***************************************************************************)
(* C4.  The result is that of the first pattern, in the fixed order        *)
(* separated ISO, dotted ISO, separated US, dotted US, compact, written    *)
(* month-first, written day-first, whose match yields a calendar-valid     *)
(* date; the patterns after it have no say.                                *)
(***************************************************************************)
PriorityOrder ==
    << [regex |-> RegexIsoSep, format_type |-> "ymd"],
       [regex |-> RegexIsoDot, format_type |-> "ymd"],
       [regex |-> RegexUsSep, format_type |-> "mdy"],
       [regex |-> RegexUsDot, format_type |-> "mdy"],
       [regex |-> RegexCompact, format_type |-> "ymd_compact"],
       [regex |-> RegexWritten, format_type |-> "written"],
       [regex |-> RegexWrittenReversed, format_type |-> "written_reversed"] >>

\* the date each pattern alone finds in the filename (<<-1, -1, -1>>: none)
Candidates == [k \in DOMAIN PriorityOrder |-> DateOf(TryPattern(PriorityOrder[k], filename, "padded"))]

C4_FirstValidPatternWins ==
    (Done /\ filename.kind = "str" /\ Name # <<>>) =>
        LET cand == Candidates
            yielding == {k \in DOMAIN cand : CalendarValid(cand[k])}
        IN  IF yielding = {} THEN result = None
            ELSE DateOf(result) = cand[Min(yielding)]

\* two patterns yield different dates, the winner is not the first pattern of
\* the list, and the pattern before it matched but gave no valid date
C4_Witness ==
    /\ Done
    /\ filename.kind = "str"
    /\ Name # <<>>
    /\ LET cand == Candidates
           yielding == {k \in DOMAIN cand : CalendarValid(cand[k])}
       IN  /\ Cardinality(yielding) >= 2
           /\ Min(yielding) >= 2
           /\ re_search(PriorityOrder[Min(yielding) - 1].regex, filename).kind = "match"
           /\ \E k \in yielding : cand[k] # cand[Min(yielding)]
           /\ DateOf(result) = cand[Min(yielding)]

(***************************************************************************)
(* C5.  Month names resolve whatever the case of their letters: a written  *)
(* filename that spells an entry of the month table, in any mix of capital *)
(* and small letters, gives that entry's month.                            *)
(***************************************************************************)
C5_MonthNameAnyCase ==
    Done => DateOf(result) = <<2023, int(MONTHS[entry].num), 5>>

\* a name written wholly in capitals resolved to its month
C5_Witness ==
    /\ Done
    /\ \A i \in DOMAIN Name : Name[i] \notin Range(LowerChars)
    /\ lower(Name) = WrittenReversedName(entry)
    /\ MONTHS[entry].num = <<"1", "0">>
    /\ DateOf(result)[2] = 10

(***************************************************************************)
(* C6.  extract_date never raises, and None and the empty string give      *)
(* absence.                                                                *)
(***************************************************************************)
C6_NeverRaises ==
    /\ ~IsRaise(result)
    /\ (Done /\ (filename = None \/ filename = Str(<<>>))) => result = None

\* extract_date was called with None and returned
C6_Witness == Done /\ filename = None /\ result = None

(***************************************************************************)
(* C7.  Every result that is not absence has the shape YYYY-MM-DD: four    *)
(* digits, a dash, two digits, a dash, two digits.                         *)
(***************************************************************************)
C7_ResultHasIsoShape ==
    (Done /\ result.kind = "str") =>
        /\ Len(result.val) = 10
        /\ \A i \in {1, 2, 3, 4, 6, 7, 9, 10} : result.val[i] \in ClsDigit
        /\ result.val[5] = "-"
        /\ result.val[8] = "-"

(***************************************************************************)
(* Vocabulary of the retry properties                                      *)
(***************************************************************************)
IsTransient(out) == IsRaise(out) /\ out.val[1] \in {"TimeoutError", "ConnectionError"}

IsPermanent(out) == IsRaise(out) /\ out.val[1] \notin {"TimeoutError", "ConnectionError"}

Running(call) == call.state \in {"Attempting", "Waiting"} /\ call.outcome = Pending

(***************************************************************************)
(* C8.  A retried call whose attempts 1 and 2 fail with a transient error  *)
(* goes on to a third attempt, and when that one succeeds the call returns *)
(* its value, the unit of work having run exactly 3 times.                 *)
(***************************************************************************)
C8_TwoTransientThenSuccess ==
    \A c \in Calls :
        LET o == calls[c].outcomes
        IN  (Len(o) >= 2 /\ IsTransient(o[1]) /\ IsTransient(o[2])) =>
                /\ Len(o) = 2 => Running(calls[c])
                /\ (Len(o) = 3 /\ o[3].kind = "ok") =>
                        /\ calls[c].state = "Succeeded"
                        /\ calls[c].outcome = Str(o[3].val)
                        /\ calls[c].invocations = 3

\* a transcription timed out, lost its connection, then succeeded
C8_Witness ==
    \E c \in Calls :
        /\ calls[c].kind = "transcribe"
        /\ calls[c].state = "Succeeded"
        /\ Len(calls[c].outcomes) = 3
        /\ calls[c].outcomes[1] = Raise("TimeoutError")
        /\ calls[c].outcomes[2] = Raise("ConnectionError")
        /\ calls[c].outcome = Str(<<"a">>)
        /\ calls[c].invocations = 3

(***************************************************************************)
(* C9.  A retried call whose every attempt fails with a transient error    *)
(* runs the unit of work exactly 3 times, never a 4th, and then ends by    *)
(* raising an error to its caller.                                         *)
(***************************************************************************)
C9_AllTransientRaisesAfterThree ==
    \A c \in Calls :
        LET o == calls[c].outcomes
        IN  /\ calls[c].invocations <= 3
            /\ (o # <<>> /\ \A i \in DOMAIN o : IsTransient(o[i])) =>
                    /\ Len(o) < 3 => Running(calls[c])
                    /\ Len(o) >= 3 =>
                            /\ calls[c].state = "FailedTerminal"
                            /\ IsRaise(calls[c].outcome)
                            /\ calls[c].invocations = 3

\* a summary request timed out three times and the call raised
C9_Witness ==
    \E c \in Calls :
        /\ calls[c].kind = "summarize"
        /\ calls[c].state = "FailedTerminal"
        /\ calls[c].outcomes = <<Raise("TimeoutError"), Raise("TimeoutError"), Raise("TimeoutError")>>
        /\ calls[c].invocations = 3
        /\ IsRaise(calls[c].outcome)

(***************************************************************************)
(* C10.  A retried call whose first attempt fails with an error that is    *)
(* not transient runs the unit of work once, sleeps no backoff delay and   *)
(* raises that error at once.                                              *)
(***************************************************************************)
C10_PermanentErrorNotRetried ==
    \A c \in Calls :
        LET o == calls[c].outcomes
        IN  (o # <<>> /\ IsPermanent(o[1])) =>
                /\ Len(o) = 1
                /\ calls[c].state = "FailedTerminal"
                /\ calls[c].invocations = 1
                /\ calls[c].slept = <<>>
                /\ calls[c].outcome = o[1]

\* the provider reported the uploaded file FAILED on the first attempt
C10_Witness ==
    \E c \in Calls :
        /\ calls[c].kind = "transcribe"
        /\ calls[c].file = "FAILED"
        /\ calls[c].state = "FailedTerminal"
        /\ calls[c].outcomes = <<Raise("Exception")>>
        /\ calls[c].invocations = 1

(***************************************************************************)
(* C11.  Whenever a retried call ends in FailedTerminal, after a permanent *)
(* error or after a transient error on the last allowed attempt, the error *)
(* its caller receives is the very error the last attempt raised, not      *)
(* wrapped in or replaced by another error type.                           *)
(***************************************************************************)
C11_LastErrorReachesCaller ==
    \A c \in Calls :
        calls[c].state = "FailedTerminal" =>
            /\ calls[c].outcomes # <<>>
            /\ calls[c].outcome = calls[c].outcomes[Len(calls[c].outcomes)]

(***************************************************************************)
(* C12.  As stated: the backoff wait after the k-th failed transient       *)
(* attempt (k = 1, 2) is min(30, 2 * 2^(k-1)) seconds: 2 s before attempt 2 *)
(* and 4 s before attempt 3.                                               *)
(***************************************************************************)
C12_WaitsTwoThenFour ==
    \A c \in Calls : \A k \in 1..2 :
        (Len(calls[c].outcomes) >= k /\ IsTransient(calls[c].outcomes[k])) =>
            /\ Len(calls[c].slept) >= k
            /\ calls[c].slept[k] = Smaller(30, 2 * Pow(2, k - 1))

(***************************************************************************)
(* C12, amended: the backoff wait after the k-th failed transient attempt  *)
(* (k = 1, 2) is 2 seconds both times: 2 s before attempt 2 and 2 s before *)
(* attempt 3 (the exponential 2^(k-1) stays below the floor of 2 s), and   *)
(* no other wait is slept.                                                 *)
(***************************************************************************)
C12_WaitsTwoThenTwo ==
    \A c \in Calls :
        /\ Len(calls[c].slept) <= 2
        /\ \A k \in 1..2 :
              (Len(calls[c].outcomes) >= k /\ IsTransient(calls[c].outcomes[k])) =>
                  /\ Len(calls[c].slept) >= k
                  /\ calls[c].slept[k] = 2

\* a refinement is in its second backoff wait
C12_Witness ==
    \E c \in Calls :
        /\ calls[c].kind = "refine"
        /\ calls[c].state = "Waiting"
        /\ calls[c].outcomes = <<Raise("ConnectionError"), Raise("TimeoutError")>>
        /\ calls[c].slept = <<2, 2>>

(***************************************************************************)
(* C13.  Every backoff wait of a retried call lies in [0, 30] seconds, and *)
(* within one invocation the wait before attempt n+1 is never shorter than *)
(* the wait before attempt n.                                              *)
(***************************************************************************)
C13_WaitsBoundedAndNonDecreasing ==
    \A c \in Calls : \A i \in DOMAIN calls[c].slept :
        /\ 0 <= calls[c].slept[i]
        /\ calls[c].slept[i] <= 30
        /\ i > 1 => calls[c].slept[i - 1] <= calls[c].slept[i]

\* the third attempt of a transcription runs after two backoff waits
C13_Witness ==
    \E c \in Calls :
        /\ calls[c].kind = "transcribe"
        /\ calls[c].state = "Attempting"
        /\ calls[c].invocations = 3
        /\ Len(calls[c].slept) = 2

(***************************************************************************)
(* C14.  The attempts of one retried call are strictly sequential: at most *)
(* one attempt is outstanding at any moment, and attempt n+1 starts only   *)
(* out of the backoff wait that followed the transient failure of          *)
(* attempt n.                                                              *)
(***************************************************************************)
Outstanding(call) == call.invocations - Len(call.outcomes)

C14_AttemptsSequential ==
    \A c \in Calls :
        LET n == calls[c].invocations
        IN  /\ Outstanding(calls[c]) \in {0, 1}
            /\ Outstanding(calls[c]) = 1 <=> calls[c].state = "Attempting"
            \* every attempt before the latest one has failed transiently ...
            /\ \A i \in 1..(n - 1) : IsTransient(calls[c].outcomes[i])
            \* ... and its backoff wait was slept before the next one started
            /\ n >= 1 => Len(calls[c].slept) =
                            IF calls[c].state = "Waiting" THEN n ELSE n - 1

\* the second attempt of a summary is outstanding, after one wait
C14_Witness ==
    \E c \in Calls :
        /\ calls[c].kind = "summarize"
        /\ calls[c].state = "Attempting"
        /\ calls[c].invocations = 2
        /\ Len(calls[c].outcomes) = 1
        /\ calls[c].slept = <<2>>

C15_InvocationsIndependent ==
    \A c \in DOMAIN calls :
        LET o == calls[c].outcomes
            n == Len(o)
        IN  /\ calls[c].invocations <= 3
            /\ calls[c].invocations = IF calls[c].state = "Attempting" THEN n + 1 ELSE n
            /\ \A i \in 1..(n - 1) : IsTransient(o[i])
            /\ n = 0 => calls[c].state \in {"Idle", "Attempting"}
            /\ n > 0 =>
                  /\ o[n].kind = "ok" =>
                        calls[c].state = "Succeeded" /\ calls[c].outcome = Str(o[n].val)
                  /\ IsPermanent(o[n]) =>
                        calls[c].state = "FailedTerminal" /\ calls[c].outcome = o[n]
                  /\ (IsTransient(o[n]) /\ n = 3) =>
                        calls[c].state = "FailedTerminal" /\ IsRaise(calls[c].outcome)
                  /\ (IsTransient(o[n]) /\ n < 3) =>
                        /\ Running(calls[c])
                        /\ calls[c].attempt_number = n + 1

\* while one invocation has used up its attempts, another one is retrying
\* after its first failure
C15_Witness ==
    \E c, d \in DOMAIN calls :
        /\ c # d
        /\ calls[c].state = "FailedTerminal"
        /\ calls[c].invocations = 3
        /\ calls[d].state = "Attempting"
        /\ calls[d].invocations = 2
        /\ Len(calls[d].outcomes) = 1

(***************************************************************************)
(* C17.  The temp file of a /transcribe request lives only for the         *)
(* request: once the handler has finished, by whatever path, no file       *)
(* created for that request remains in the temp directory.                 *)
(***************************************************************************)
C17_NoTempFileAfterRequest ==
    (handler.route = "transcribe" /\ handler.pc = "done") => handler.disk = "absent"

(***************************************************************************)
(* C18.  /transcribe answers 400 to an upload whose extension is not in    *)
(* the allowed list, whose content is empty, or whose size exceeds the     *)
(* configured maximum; for such a request no temp file is saved and the    *)
(* provider is never called.                                               *)
(***************************************************************************)
EndsWith(s, e) == Len(s) >= Len(e) /\ SubSeq(s, Len(s) - Len(e) + 1, Len(s)) = e

HasAllowedEnding(name) ==
    /\ name # None
    /\ \E e \in allowed_audio_extensions :
          EndsWith([i \in DOMAIN name.val |-> LowerChar(name.val[i])], e)

BadUpload(h) ==
    \/ ~HasAllowedEnding(h.name)
    \/ h.size = 0
    \/ h.size > 104857600

C18_BadUploadRejected ==
    (handler.route = "transcribe" /\ BadUpload(handler)) =>
        /\ handler.pc = "done"
        /\ handler.status = 400
        /\ handler.saves = 0
        /\ handler.disk = "absent"
        /\ calls[1].invocations = 0

\* an mp3 one byte over the maximum was turned away
C18_Witness ==
    /\ handler.route = "transcribe"
    /\ handler.name = Str(<<"a", ".", "m", "p", "3">>)
    /\ handler.size = 104857601
    /\ handler.status = 400
    /\ handler.saves = 0

(***************************************************************************)
(* C19.  When the transcription of a /transcribe request fails because     *)
(* the provider call times out (TimeoutError on every allowed attempt),    *)
(* the endpoint answers with status 408, not 500.                          *)
(***************************************************************************)
C19_TimeoutAnswers408 ==
    ( /\ handler.route = "transcribe"
      /\ handler.pc = "done"
      /\ calls[1].state = "FailedTerminal"
      /\ Len(calls[1].outcomes) = 3
      /\ \A i \in 1..3 : calls[1].outcomes[i] = Raise("TimeoutError") )
        => handler.status = 408

(***************************************************************************)
(* C20.  A /refine request with a missing or empty speaker_mapping, a      *)
(* mapping key or value that is blank after trimming, or a transcript      *)
(* shorter than 10 characters is answered 422, and the provider's          *)
(* refine_transcript is never called for it.                               *)
(***************************************************************************)
Blank(str) == \A i \in DOMAIN str : str[i] = " "

BadRefineBody(body) ==
    \/ body.speaker_mapping = None
    \/ body.speaker_mapping.val = <<>>
    \/ \E i \in DOMAIN body.speaker_mapping.val :
          Blank(body.speaker_mapping.val[i][1]) \/ Blank(body.speaker_mapping.val[i][2])
    \/ (body.transcript # None /\ Len(body.transcript.val) < 10)

C20_BadRefineBodyRejected ==
    (handler.route = "refine" /\ BadRefineBody(handler.body)) =>
        /\ handler.pc = "done"
        /\ handler.status = 422
        /\ calls[1].invocations = 0

\* a mapping whose second value is a single space was turned away
C20_Witness ==
    /\ handler.route = "refine"
    /\ handler.body.transcript = Str(<<"[", "A", "]", ":", " ", "h", "i", " ", "y", "o">>)
    /\ handler.body.speaker_mapping # None
    /\ Len(handler.body.speaker_mapping.val) = 2
    /\ handler.body.speaker_mapping.val[2][2] = <<" ">>
    /\ handler.status = 422
    /\ calls[1].invocations = 0

(***************************************************************************)
(* C26.  A failure that is not a TimeoutError or ConnectionError ends a    *)
(* retried call at whatever attempt it occurs, 1, 2 or 3: no backoff wait  *)
(* and no further attempt follows it, also when earlier attempts of the    *)
(* same invocation failed transiently.                                     *)
(***************************************************************************)
C26_PermanentErrorEndsCallAtAnyAttempt ==
    \A c \in Calls : \A k \in 1..3 :
        LET o == calls[c].outcomes
        IN  (Len(o) >= k /\ IsPermanent(o[k])) =>
                /\ Len(o) = k
                /\ calls[c].invocations = k
                /\ Len(calls[c].slept) = k - 1
                /\ calls[c].state = "FailedTerminal"
                /\ calls[c].outcome = o[k]

\* a transcription timed out twice, then the provider reported the file of
\* the third attempt FAILED
C26_Witness ==
    \E c \in Calls :
        /\ calls[c].kind = "transcribe"
        /\ calls[c].outcomes = <<Raise("TimeoutError"), Raise("TimeoutError"), Raise("Exception")>>
        /\ calls[c].file = "FAILED"
        /\ calls[c].state = "FailedTerminal"
        /\ calls[c].slept = <<2, 2>>

(***************************************************************************)
(* C27.  When transcribe_audio has finished, by success or by failure and  *)
(* across all its retry attempts, every audio file it uploaded to the      *)
(* provider has had a delete requested.                                    *)
(***************************************************************************)
C27_EveryUploadHasDeleteRequested ==
    \A c \in Calls :
        (calls[c].kind = "transcribe" /\ calls[c].state \in {"Succeeded", "FailedTerminal"}) =>
            calls[c].delete_requested = calls[c].uploaded

(***************************************************************************)
(* C28.  Every invocation of a retried call eventually reaches Succeeded   *)
(* or FailedTerminal, after at most 3 attempts and at most 2 backoff       *)
(* waits, provided each single attempt of the unit of work finishes: the   *)
(* states Attempting and Waiting are never held forever.                   *)
(***************************************************************************)
C28_EveryInvocationEnds ==
    /\ [](calls[1].invocations <= 3 /\ Len(calls[1].slept) <= 2)
    /\ (calls[1].state \in {"Attempting", "Waiting"})
          ~> (calls[1].state \in {"Succeeded", "FailedTerminal"})

\* a refinement lost its connection twice, waited twice and succeeded
C28_Witness ==
    \E c \in DOMAIN calls :
        /\ calls[c].kind = "refine"
        /\ calls[c].state = "Succeeded"
        /\ calls[c].outcomes[1] = Raise("ConnectionError")
        /\ calls[c].outcomes[2] = Raise("ConnectionError")
        /\ calls[c].invocations = 3
        /\ calls[c].slept = <<2, 2>>

(***************************************************************************)
(* C29.  As stated: one attempt of transcribe_audio finishes only if the   *)
(* provider moves the uploaded file out of state PROCESSING: while the     *)
(* state stays PROCESSING the attempt is in its polling loop, whatever the *)
(* number of polls, and neither succeeds nor fails.                        *)
(***************************************************************************)
C29_AttemptEndsOnlyOutOfProcessing ==
    \A c \in Calls :
        (calls[c].kind = "transcribe" /\ calls[c].file = "PROCESSING") =>
            /\ calls[c].state = "Attempting"
            /\ calls[c].pc = "poll"
            /\ Outstanding(calls[c]) = 1

(***************************************************************************)
(* C29, amended: while the last state read of the uploaded file is         *)
(* PROCESSING, the attempt is in its polling loop, whatever the number of  *)
(* polls, and neither succeeds nor fails, unless the poll itself           *)
(* (genai.get_file) raises: then the attempt fails with that error.        *)
(***************************************************************************)
C29_AttemptEndsOutOfProcessingOrByPollError ==
    \A c \in Calls :
        (calls[c].kind = "transcribe" /\ calls[c].file = "PROCESSING") =>
            IF calls[c].poll_raised
            THEN /\ Outstanding(calls[c]) = 0
                 /\ IsRaise(calls[c].outcomes[Len(calls[c].outcomes)])
                 /\ calls[c].polls >= 1
            ELSE /\ calls[c].state = "Attempting"
                 /\ calls[c].pc = "poll"
                 /\ Outstanding(calls[c]) = 1

\* the file of a first attempt is still PROCESSING after two polls
C29_Witness ==
    \E c \in Calls :
        /\ calls[c].kind = "transcribe"
        /\ calls[c].file = "PROCESSING"
        /\ calls[c].polls >= 2
        /\ calls[c].invocations = 1
        /\ calls[c].state = "Attempting"
        /\ calls[c].pc = "poll"

(***************************************************************************)
(* C24.  Within one pattern only the first (leftmost) occurrence in the    *)
(* filename is examined: when it has an unrecognized month name or is not  *)
(* a calendar-valid date, extract_date discards the pattern and goes on to *)
(* the next one, and a later occurrence of the same pattern, even a valid  *)
(* one, is never used.  The result is the date of the first pattern whose  *)
(* leftmost occurrence is a real date, and absence when there is none.     *)
(***************************************************************************)
MonthNumberOf(name) ==
    IF \E i \in DOMAIN MONTHS : MONTHS[i].name = lower(name)
    THEN DigitsValue(MONTHS[CHOOSE i \in DOMAIN MONTHS : MONTHS[i].name = lower(name)].num)
    ELSE -1

\* <<year, month, day>> as the leftmost occurrence of the pattern reads
\* (<<-1, -1, -1>>: the pattern occurs nowhere)
FirstOccurrence(p) ==
    LET m == re_search(p.regex, filename)
    IN  IF m.kind # "match" THEN <<-1, -1, -1>>
        ELSE LET g == Groups(p.regex, Name, m)
             IN  CASE p.format_type \in {"ymd", "ymd_compact"} ->
                        <<DigitsValue(g[1]), DigitsValue(g[2]), DigitsValue(g[3])>>
                   [] p.format_type = "mdy" ->
                        <<DigitsValue(g[3]), DigitsValue(g[1]), DigitsValue(g[2])>>
                   [] p.format_type = "written" ->
                        <<DigitsValue(g[3]), MonthNumberOf(g[1]), DigitsValue(g[2])>>
                   [] p.format_type = "written_reversed" ->
                        <<DigitsValue(g[3]), MonthNumberOf(g[2]), DigitsValue(g[1])>>

C24_OnlyFirstOccurrenceOfEachPattern ==
    (Done /\ filename.kind = "str" /\ Name # <<>>) =>
        LET first == [k \in DOMAIN PriorityOrder |-> FirstOccurrence(PriorityOrder[k])]
            usable == {k \in DOMAIN first : CalendarValid(first[k])}
        IN  IF usable = {} THEN result = None
            ELSE DateOf(result) = first[Min(usable)]

\* "Foo 1 2022_Oct 5 2021": the written pattern's first occurrence names no
\* month, the valid "Oct 5 2021" after it is not used and nothing is found
C24_Witness ==
    /\ Done
    /\ filename = Str(Occurrences[3] \o Occurrences[8] \o Occurrences[4])
    /\ FirstOccurrence(PriorityOrder[6]) = <<2022, -1, 1>>
    /\ result = None

(***************************************************************************)
(* C25.  extract_date never interprets a two-digit year: every result that *)
(* is not absence has as its year a run of exactly four digits taken from  *)
(* the filename, and a filename whose only date-like text has a two-digit  *)
(* year (no four digits in a row, as in 10-27-23) yields absence.          *)
(***************************************************************************)
\* the text of the result before its first "-"
YearText(v) ==
    IF DashesOf(v) = {} THEN v
    ELSE SubSeq(v, 1, Min(DashesOf(v)) - 1)

FourDigitRuns(s) ==
    {SubSeq(s, i, i + 3) : i \in {j \in 1..(Len(s) - 3) : \A d \in 0..3 : IsDigitAt(s, j + d)}}

C25_YearIsFourDigitsOfFilename ==
    (Done /\ filename.kind = "str") =>
        /\ result # None =>
              /\ result.kind = "str"
              /\ Len(YearText(result.val)) = 4
              /\ YearText(result.val) \in FourDigitRuns(Name)
        /\ FourDigitRuns(Name) = {} => result = None

C23_AtLeastOneChangeDescription ==
    handler.changes_made # None =>
        LET changes == handler.changes_made.val
        IN  /\ Len(changes) >= 1
            /\ strip(handler.body.transcript.val) = strip(handler.refined.val) =>
                    NoChangesText \in Range(changes)

\* an empty mapping and two texts that differ only by the blanks around
\* them: the one description is 'No changes were necessary'
C23_Witness ==
    /\ handler.changes_made # None
    /\ handler.body.speaker_mapping = Dict(<<>>)
    /\ handler.body.transcript.val # handler.refined.val
    /\ handler.body.transcript.val # <<>>
    /\ handler.changes_made.val = <<NoChangesText>>

(***************************************************************************)
(* C30.  The list returned by detect_changes is never self-contradictory:  *)
(* it contains 'No changes were necessary' only when it contains no        *)
(* "Replaced '...' with '...'" entry, for every original, refined and      *)
(* mapping.                                                                *)
(***************************************************************************)
IsReplacedEntry(text) ==
    /\ Len(text) >= Len(ReplacedPrefix)
    /\ SubSeq(text, 1, Len(ReplacedPrefix)) = ReplacedPrefix

C30_NoChangesExcludesReplaced ==
    handler.changes_made # None =>
        LET changes == handler.changes_made.val
        IN  NoChangesText \in Range(changes) =>
                \A i \in DOMAIN changes : ~IsReplacedEntry(changes[i])

====
